---- MODULE Spec2Model ----
(***************************************************************************)
(* Model of imas_iter_mapping: SignalMap.from_yaml (strictyaml load, then  *)
(* pydantic model construction with its "before" and "after" validators),  *)
(* the unit handling of ChannelSignal, the CLI's try_parse/validate,       *)
(* UnitConversion.calculate, the cached load_machine_description_ids and   *)
(* calculate_streaming_metadata, and the line lookup of ValidationError.   *)
(*                                                                         *)
(* Text is modelled as a sequence of one-character strings so that         *)
(* str.partition, str.endswith, str.removesuffix, str.strip and            *)
(* str.startswith are computed, not assumed.                               *)
(***************************************************************************)
EXTENDS Integers, Sequences, FiniteSets, TLC

VARIABLES
    doc,        \* the mapping file handed to from_yaml
    edits,      \* number of edits applied to the base mapping so far
    pc,         \* position inside from_yaml / the CLI
    model,      \* the SignalMap under construction (None before construction)
    result,     \* the exception that left from_yaml (cls = "None": no exception)
    calls,      \* requests made to the collaborators, in order
    exit_code,  \* exit code of `imas-iter-mapping validate` (-1: still running)
    raw,        \* input of a stand-alone ChannelSignal.parse_signal_expression call
    parsed,     \* its outcome
    conv,       \* a stand-alone UnitConversion.calculate call: arguments and outcome
    md_file,    \* content of the machine description data set at MDUri
    md_cache,   \* cache of load_machine_description_ids: the loaded IDS per key
    streaming,  \* outcome of calculate_streaming_metadata on the validated map
    runs        \* number of from_yaml calls of this process, the current one included

vars == <<doc, edits, pc, model, result, calls, exit_code, raw, parsed, conv,
          md_file, md_cache, streaming, runs>>

None == "None"

----------------------------------------------------------------------------
(* Bounds of the model *)

\* number of edits (replace / append / delete) applied to the base mapping
MaxEdits == 2
\* length of the raw signal expressions fed to parse_signal_expression alone
MaxLen == 5
\* number of mapping files one process validates, one after the other
MaxRuns == 2

----------------------------------------------------------------------------
(* Python str methods on character sequences *)

\* index of the first occurrence of c in s, 0 when absent (str.find + 1)
IndexOf(s, c) ==
    IF \E i \in 1..Len(s) : s[i] = c
    THEN CHOOSE i \in 1..Len(s) : s[i] = c /\ \A j \in 1..(i - 1) : s[j] # c
    ELSE 0

\* str.partition(sep) for a one-character separator
partition(s, sep) ==
    LET i == IndexOf(s, sep)
    IN  IF i = 0 THEN <<s, <<>>, <<>>>>
        ELSE <<SubSeq(s, 1, i - 1), <<sep>>, SubSeq(s, i + 1, Len(s))>>

endswith(s, c) == Len(s) > 0 /\ s[Len(s)] = c

removesuffix(s, c) == IF endswith(s, c) THEN SubSeq(s, 1, Len(s) - 1) ELSE s

startswith(s, p) == Len(s) >= Len(p) /\ SubSeq(s, 1, Len(p)) = p

RECURSIVE lstrip(_)
lstrip(s) == IF Len(s) > 0 /\ s[1] = " " THEN lstrip(Tail(s)) ELSE s

RECURSIVE rstrip(_)
rstrip(s) ==
    IF Len(s) > 0 /\ s[Len(s)] = " " THEN rstrip(SubSeq(s, 1, Len(s) - 1)) ELSE s

\* str.strip()
strip(s) == rstrip(lstrip(s))

\* all sequences over S of length at most n
RECURSIVE SeqsUpTo(_, _)
SeqsUpTo(S, n) ==
    IF n = 0 THEN {<<>>}
    ELSE LET shorter == SeqsUpTo(S, n - 1)
         IN  shorter \cup {Append(s, c) : s \in shorter, c \in S}

Range(s) == {s[i] : i \in 1..Len(s)}

----------------------------------------------------------------------------
(* The unit registry (pint.UnitRegistry) *)

\* unit symbols the registry defines, with their dimensionality
Dimensionality(u) ==
    CASE u = <<"V">> -> "volt"
      [] u = <<"m", "V">> -> "volt"
      [] u = <<"W", "b">> -> "weber"
      [] u = <<"A">> -> "ampere"
      [] OTHER -> None

Letters == {"x", "y", "V", "A", "W", "b", "m"}

\* UNIT_REGISTRY.Quantity(text): a quantity of magnitude 1, or the exception
\* pint raises.  An empty string is a plain ValueError; a name the registry
\* does not define is pint.UndefinedUnitError (an AttributeError); anything
\* that is not a name fails in pint's expression parser (DefinitionSyntaxError,
\* a ValueError).
Quantity(text) ==
    LET t == strip(text)
    IN  IF text = <<>> THEN [exc |-> "ValueError", units |-> None]
        ELSE IF Dimensionality(t) # None THEN [exc |-> None, units |-> t]
        ELSE IF t # <<>> /\ Range(t) \subseteq Letters
             THEN [exc |-> "UndefinedUnitError", units |-> None]
        ELSE [exc |-> "ValueError", units |-> None]

\* Quantity.check(unit): same dimensionality
check(source_units, dd_units) ==
    Dimensionality(source_units) = Dimensionality(dd_units)

----------------------------------------------------------------------------
(* The collaborators' data: Data Dictionary catalog and machine description *)

DD4 == <<"4", ".", "0", ".", "0">>
DD3 == <<"3", ".", "3", "8", ".", "1">>
DD3x == <<"3", ".", "9", "9">>
DDabc == <<"a", "b", "c">>

\* versions imas.IDSFactory can instantiate
KnownVersions == {DD4, DD3}
Versions == {DD4, DD3, DD3x, DDabc}

\* IDS names factory.new accepts
IDSNames == {"magnetics", "mhd"}
Targets == {"magnetics", "mhd", "xyz"}

\* idsmeta[ids_path].data_type; None: the lookup raises
data_type(target_ids, ids_path) ==
    CASE target_ids = "magnetics" /\ ids_path \in {"flux_loop", "b_field_pol_probe"}
            -> "STRUCT_ARRAY"
      [] target_ids \in IDSNames /\ ids_path = "code" -> "STRUCTURE"
      [] OTHER -> None

ArrayPaths == {"flux_loop", "b_field_pol_probe", "code", "flux_loop_abcd"}

\* aosmeta[path].units; None: the lookup raises
units(ids_path, path) ==
    CASE ids_path = "flux_loop" /\ path = "flux/data" -> <<"W", "b">>
      [] ids_path \in {"flux_loop", "b_field_pol_probe"} /\ path = "voltage/data"
            -> <<"V">>
      [] OTHER -> None

SignalPaths == {"flux/data", "voltage/data"}

\* the machine description data set and the URIs of the mapping files
MDUri == "md"
Uris == {MDUri, "asdf"}

\* the elements of an array of structures: their names, and the rest of their
\* content (here the geometry), which differs from one element to the next
Elements(names) ==
    [n \in 1..Len(names) |-> [name |-> names[n], geometry |-> n]]

\* the arrays of structures of the magnetics IDS of the test data
StandardMD ==
    [ flux_loop |-> Elements(<<"55.AD.00-MSA-1001", "55.AD.00-MSA-1002">>),
      b_field_pol_probe |->
          Elements(<<"55.AA.00-MPP-1001", "55.AD.00-MSA-1002">>) ]

\* another data set: other order, two elements of one name, an empty array
OtherMD ==
    [ flux_loop |-> Elements(<<"55.AD.00-MSA-1002", "55.AD.00-MSA-1001",
                               "55.AD.00-MSA-1001">>),
      b_field_pol_probe |-> <<>> ]

MachineDescriptions == {StandardMD, OtherMD}

\* the top-level arrays of structures of the IDS, in the order of iteration
AoSOrder == <<"flux_loop", "b_field_pol_probe">>

\* names of the elements of ids[path] in the machine description, in order
MDNames(path) ==
    IF path \in DOMAIN md_file
    THEN [n \in 1..Len(md_file[path]) |-> md_file[path][n].name]
    ELSE <<>>

ChannelNames ==
    {"55.AD.00-MSA-1001", "55.AD.00-MSA-1002", "55.AA.00-MPP-1001", "x"}

\* load_machine_description_ids(md_uri, dd_version, ids_name) succeeds
MDLoads(md_uri, dd_version, ids_name) ==
    md_uri = MDUri /\ dd_version \in KnownVersions /\ ids_name = "magnetics"

----------------------------------------------------------------------------
(* Mapping files *)

TopLevelKeys ==
    {"description", "data_dictionary_version", "machine_description_uri",
     "target_ids", "signals"}

\* signal expressions an edit can write
RawSignals ==
    { <<"x", " ", "[", "W", "b", "]">>,
      <<"y", " ", "[", "V", "]">>,
      <<"x", " ", "[", "V", "]">>,
      <<"z", " ", "[", "V", "]">>,
      <<"x">>,
      <<"x", " ", "[", "]">> }

\* the mapping of the test suite's fixture
BaseMapping ==
    [ yaml_ok |-> TRUE,
      keys |-> TopLevelKeys,
      signals_is_mapping |-> TRUE,
      data_dictionary_version |-> DD4,
      machine_description_uri |-> MDUri,
      target_ids |-> "magnetics",
      signals |-> <<
        [ ids_path |-> "flux_loop",
          channels |-> <<
            [ name |-> "55.AD.00-MSA-1001",
              signals |-> <<
                [path |-> "flux/data", signal |-> <<"x", " ", "[", "W", "b", "]">>],
                [path |-> "voltage/data", signal |-> <<"y", " ", "[", "V", "]">>]
              >> ] >> ] >> ]

\* positions of the entries, channels and signals of a mapping
EntryIdx(d) == 1..Len(d.signals)
ChannelIdx(d) ==
    UNION {{<<i, j>> : j \in 1..Len(d.signals[i].channels)} : i \in EntryIdx(d)}
SignalIdx(d) ==
    UNION {{<<ij[1], ij[2], l>> :
                l \in 1..Len(d.signals[ij[1]].channels[ij[2]].signals)} :
           ij \in ChannelIdx(d)}

\* concatenation of a sequence of sequences
RECURSIVE Flatten(_)
Flatten(ss) == IF ss = <<>> THEN <<>> ELSE Head(ss) \o Flatten(Tail(ss))

\* s without its i-th element
RemoveAt(s, i) == SubSeq(s, 1, i - 1) \o SubSeq(s, i + 1, Len(s))

----------------------------------------------------------------------------
(* Writing a mapping file: the edits the test suite applies to its fixture *)

CanEdit == pc = "edit" /\ edits < MaxEdits

Edited(d) ==
    /\ doc' = d
    /\ edits' = edits + 1
    /\ UNCHANGED <<pc, model, result, calls, exit_code, raw, parsed, conv,
                   md_file, md_cache, streaming, runs>>

ReplaceVersion(v) ==
    CanEdit /\ Edited([doc EXCEPT !.data_dictionary_version = v])

ReplaceUri(u) ==
    CanEdit /\ Edited([doc EXCEPT !.machine_description_uri = u])

ReplaceTarget(t) ==
    CanEdit /\ Edited([doc EXCEPT !.target_ids = t])

\* mapping.replace("flux_loop", ...): strictyaml refuses a repeated key
ReplaceArrayPath(i, k) ==
    /\ CanEdit
    /\ i \in EntryIdx(doc)
    /\ \A o \in EntryIdx(doc) : o # i => doc.signals[o].ids_path # k
    /\ Edited([doc EXCEPT !.signals[i].ids_path = k])

\* n = None deletes the "name" key of the channel entry
ReplaceChannelName(ij, n) ==
    /\ CanEdit
    /\ ij \in ChannelIdx(doc)
    /\ Edited([doc EXCEPT !.signals[ij[1]].channels[ij[2]].name = n])

ReplaceSignalPath(ijl, p) ==
    /\ CanEdit
    /\ ijl \in SignalIdx(doc)
    /\ LET sigs == doc.signals[ijl[1]].channels[ijl[2]].signals
       IN  \A o \in 1..Len(sigs) : o # ijl[3] => sigs[o].path # p
    /\ Edited([doc EXCEPT
                 !.signals[ijl[1]].channels[ijl[2]].signals[ijl[3]].path = p])

ReplaceSignal(ijl, r) ==
    /\ CanEdit
    /\ ijl \in SignalIdx(doc)
    /\ Edited([doc EXCEPT
                 !.signals[ijl[1]].channels[ijl[2]].signals[ijl[3]].signal = r])

\* mapping + "  - name: ..."
AppendChannel(i, n) ==
    /\ CanEdit
    /\ i \in EntryIdx(doc)
    /\ Edited([doc EXCEPT !.signals[i].channels =
                 Append(@, [name |-> n, signals |-> <<>>])])

AppendSignal(ij, p, r) ==
    /\ CanEdit
    /\ ij \in ChannelIdx(doc)
    /\ LET sigs == doc.signals[ij[1]].channels[ij[2]].signals
       IN  \A o \in 1..Len(sigs) : sigs[o].path # p
    /\ Edited([doc EXCEPT !.signals[ij[1]].channels[ij[2]].signals =
                 Append(@, [path |-> p, signal |-> r])])

\* mapping + "  rogowski_coil:\n  - name: ..."
AppendArrayPath(k, n) ==
    /\ CanEdit
    /\ \A o \in EntryIdx(doc) : doc.signals[o].ids_path # k
    /\ Edited([doc EXCEPT !.signals =
                 Append(@, [ids_path |-> k,
                            channels |-> <<[name |-> n, signals |-> <<>>]>>])])

DeleteSignal(ijl) ==
    /\ CanEdit
    /\ ijl \in SignalIdx(doc)
    /\ Edited([doc EXCEPT !.signals[ijl[1]].channels[ijl[2]].signals =
                 RemoveAt(@, ijl[3])])

\* an array-path keeps at least one channel: an empty sequence is no block YAML
DeleteChannel(ij) ==
    /\ CanEdit
    /\ ij \in ChannelIdx(doc)
    /\ Len(doc.signals[ij[1]].channels) > 1
    /\ Edited([doc EXCEPT !.signals[ij[1]].channels = RemoveAt(@, ij[2])])

\* del lines[i] of a top-level key
DeleteKey(k) ==
    /\ CanEdit
    /\ k \in doc.keys
    /\ Edited([doc EXCEPT !.keys = @ \ {k}])

\* del lines[5], the "  flux_loop:" line: `signals` becomes a sequence
DeleteArrayPathKey ==
    /\ CanEdit
    /\ doc.signals_is_mapping
    /\ Len(doc.signals) = 1
    /\ Edited([doc EXCEPT !.signals_is_mapping = FALSE])

AppendUnknownKey ==
    CanEdit /\ Edited([doc EXCEPT !.keys = @ \cup {"unknown_key"}])

\* mapping + "abc": no longer YAML
BreakYaml ==
    CanEdit /\ Edited([doc EXCEPT !.yaml_ok = FALSE])

----------------------------------------------------------------------------
(* Exceptions *)

NoError == [cls |-> None, errors |-> <<>>]

\* a ValueError raised inside a pydantic validator leaves the constructor as
\* pydantic's own ValidationError; loc is pydantic's location of the validator
Error(kind, loc) == [kind |-> kind, loc |-> loc]
PydanticError(errors) == [cls |-> "pydantic.ValidationError", errors |-> errors]

\* first element of a sequence of error kinds that is not None
RECURSIVE FirstError(_)
FirstError(kinds) ==
    IF kinds = <<>> THEN None
    ELSE IF Head(kinds) # None THEN Head(kinds)
    ELSE FirstError(Tail(kinds))

\* exceptions.ValidationError(msg, yaml_path)
ValidationError(msg, yaml_path) ==
    [cls |-> "ValidationError", msg |-> msg, yaml_path |-> yaml_path,
     full_message |-> <<[text |-> msg]>>]

\* number of the line of the mapping file that holds the key or sequence item
\* a structural path designates
KeyOrder ==
    <<"description", "data_dictionary_version", "machine_description_uri",
      "target_ids", "signals">>

RECURSIVE Sum(_)
Sum(ns) == IF ns = <<>> THEN 0 ELSE Head(ns) + Sum(Tail(ns))

ChannelLines(channel) == 1 + Len(channel.signals)
EntryLines(entry) ==
    1 + Sum([j \in 1..Len(entry.channels) |-> ChannelLines(entry.channels[j])])

YamlLine(d, yaml_path) ==
    LET top == Cardinality({n \in 1..Len(KeyOrder) :
                   /\ KeyOrder[n] \in d.keys
                   /\ n <= IndexOf(KeyOrder, yaml_path[1])})
        i == CHOOSE i \in EntryIdx(d) : d.signals[i].ids_path = yaml_path[2]
        entry == top + 1 + Sum([o \in 1..(i - 1) |-> EntryLines(d.signals[o])])
        j == yaml_path[3] + 1
        item == entry + 1 +
                  Sum([o \in 1..(j - 1) |-> ChannelLines(d.signals[i].channels[o])])
        sigs == d.signals[i].channels[j].signals
        l == CHOOSE l \in 1..Len(sigs) : sigs[l].path = yaml_path[4]
    IN  CASE Len(yaml_path) = 1 -> top
          [] Len(yaml_path) = 2 -> entry
          [] Len(yaml_path) = 3 -> item
          [] OTHER -> IF yaml_path[4] = "name" THEN item ELSE item + l

\* a string value inside a channel mapping owns no lines: yaml.lines() is
\* empty and yaml.start_line is the line after the one that holds it
lines_empty(yaml_path) == Len(yaml_path) = 4
start_line(d, yaml_path) ==
    IF lines_empty(yaml_path) THEN YamlLine(d, yaml_path) + 1
    ELSE YamlLine(d, yaml_path)

\* ValidationError.set_yaml_and_label: the two lines added to the message
set_yaml_and_label(err, d, label) ==
    LET startline == IF lines_empty(err.yaml_path)
                     THEN start_line(d, err.yaml_path) - 1
                     ELSE start_line(d, err.yaml_path)
    IN  [err EXCEPT !.full_message =
            @ \o <<[label |-> label, line |-> startline],
                   [source_line |-> startline]>>]

----------------------------------------------------------------------------
(* ChannelSignal *)

\* parse_signal_expression (mode="before"): data["signal"] -> signal, source_units
parse_signal_expression(data_signal) ==
    LET parts == partition(data_signal, "[")
        signal == parts[1]
        bracket == parts[2]
        unit_with_bracket == parts[3]
        unit_str == removesuffix(unit_with_bracket, "]")
        unit == Quantity(unit_str)
        fail(kind) == [exc |-> kind, signal |-> None, source_units |-> None]
    IN  IF bracket # <<>>
        THEN IF ~endswith(unit_with_bracket, "]")
             THEN fail("ExpectingClosingBracket")
             ELSE IF unit.exc = "UndefinedUnitError"
             THEN fail("ErrorParsingUnit")
             ELSE IF unit.exc # None
             THEN fail("pint." \o unit.exc)
             ELSE [exc |-> None, signal |-> strip(signal),
                   source_units |-> unit.units]
        ELSE fail("MissingUnit")

\* ChannelSignal.validate_imas_paths_and_units: the error it raises, or None
ChannelSignal_validate_imas_paths_and_units(sig, ids_path) ==
    IF units(ids_path, sig.path) = None THEN "UnknownIDSPath"
    ELSE IF ~check(sig.source_units, units(ids_path, sig.path))
    THEN "IncompatibleUnits"
    ELSE None

\* ... and the dd_units it records
dd_units_of(sig, ids_path) == units(ids_path, sig.path)

----------------------------------------------------------------------------
(* ChannelMap *)

\* parse_yaml (mode="before") followed by the construction of the fields:
\* the errors pydantic collects for channel j (from 0) of array-path k
ChannelMap_errors(k, j, channel) ==
    IF channel.name = None
    THEN <<Error("MissingChannelName", <<"signals", k, j>>)>>
    ELSE Flatten([l \in 1..Len(channel.signals) |->
            LET p == parse_signal_expression(channel.signals[l].signal)
            IN  IF p.exc = None THEN <<>>
                ELSE <<Error(p.exc, <<"signals", k, j, "signals", l - 1>>)>>])

ChannelMap_build(channel) ==
    [ name |-> channel.name,
      signals |-> [l \in 1..Len(channel.signals) |->
          LET p == parse_signal_expression(channel.signals[l].signal)
          IN  [ path |-> channel.signals[l].path,
                signal |-> p.signal,
                source_units |-> p.source_units,
                dd_units |-> None ]] ]

\* variant: returns after the first signal of the channel
ChannelMap_validate_first_signal_only(channel, ids_path) ==
    IF Len(channel.signals) = 0 THEN None
    ELSE ChannelSignal_validate_imas_paths_and_units(channel.signals[1], ids_path)

\* ChannelMap.validate_imas_paths_and_units: first error of its signals
ChannelMap_validate_imas_paths_and_units(channel, ids_path) ==
    FirstError([l \in 1..Len(channel.signals) |->
        ChannelSignal_validate_imas_paths_and_units(channel.signals[l], ids_path)])

----------------------------------------------------------------------------
(* SignalMap.from_yaml *)

\* strictyaml.load + as_marked_up, then cls(**yaml_dict) begins
from_yaml ==
    /\ pc = "edit"
    /\ IF doc.yaml_ok
       THEN pc' = "fields" /\ result' = result
       ELSE pc' = "raised" /\ result' = [cls |-> "YAMLError", errors |-> <<>>]
    /\ edits' = 0
    /\ UNCHANGED <<doc, model, calls, exit_code, raw, parsed, conv, md_file,
                   md_cache, streaming, runs>>

\* errors of the field validation, in field order
SignalMap_errors(d) ==
    LET keyOrder == <<"description", "data_dictionary_version",
                      "machine_description_uri", "target_ids", "signals">>
        missing == Flatten([n \in 1..Len(keyOrder) |->
            IF keyOrder[n] \in d.keys THEN <<>>
            ELSE <<Error("missing", <<keyOrder[n]>>)>>])
        inSignals ==
            IF "signals" \notin d.keys THEN <<>>
            ELSE IF ~d.signals_is_mapping
            THEN <<Error("dict_type", <<"signals">>)>>
            ELSE Flatten([i \in 1..Len(d.signals) |->
                    Flatten([j \in 1..Len(d.signals[i].channels) |->
                        ChannelMap_errors(d.signals[i].ids_path, j - 1,
                                          d.signals[i].channels[j])])])
        extra == IF "unknown_key" \in d.keys
                 THEN <<Error("extra_forbidden", <<"unknown_key">>)>>
                 ELSE <<>>
    IN  missing \o inSignals \o extra

SignalMap_build(d) ==
    [ data_dictionary_version |-> d.data_dictionary_version,
      machine_description_uri |-> d.machine_description_uri,
      target_ids |-> d.target_ids,
      signals |-> [i \in 1..Len(d.signals) |->
          [ ids_path |-> d.signals[i].ids_path,
            channels |-> [j \in 1..Len(d.signals[i].channels) |->
                ChannelMap_build(d.signals[i].channels[j])] ]] ]

\* pydantic validates the fields (running the "before" validators of
\* ChannelMap and ChannelSignal) and collects every error it meets
SignalMap_fields ==
    /\ pc = "fields"
    /\ LET errors == SignalMap_errors(doc)
       IN  IF errors = <<>>
           THEN /\ model' = SignalMap_build(doc)
                /\ pc' = "validate_imas_metadata"
                /\ result' = result
           ELSE /\ model' = model
                /\ pc' = "raised"
                /\ result' = PydanticError(errors)
    /\ UNCHANGED <<doc, edits, calls, exit_code, raw, parsed, conv, md_file,
                   md_cache, streaming, runs>>

----------------------------------------------------------------------------
(* SignalMap's "after" validators, run by pydantic in definition order *)

\* a ValueError of an "after" validator of the root model: pydantic reports it
\* at the root, loc = ()
Raise(kind) ==
    /\ pc' = "raised"
    /\ result' = PydanticError(<<Error(kind, <<>>)>>)

\* the "Validate channel AoS" loop body for one entry of self.signals
array_path_error(target_ids, entry) ==
    IF data_type(target_ids, entry.ids_path) = None THEN "UnknownIDSPath"
    ELSE IF data_type(target_ids, entry.ids_path) # "STRUCT_ARRAY"
    THEN "NotAnAoS"
    ELSE FirstError([j \in 1..Len(entry.channels) |->
            ChannelMap_validate_imas_paths_and_units(entry.channels[j],
                                                     entry.ids_path)])

\* the error validate_imas_metadata raises once the factory exists, or None
imas_metadata_error(m) ==
    IF startswith(m.data_dictionary_version, <<"3", ".">>)
    THEN "DD3NotSupported"
    ELSE IF m.target_ids \notin IDSNames THEN "UnknownIDS"
    ELSE FirstError([i \in 1..Len(m.signals) |->
            array_path_error(m.target_ids, m.signals[i])])

\* variant: dd_units recorded on the first signal of every channel only
with_dd_units_of_first_signal(m) ==
    [m EXCEPT !.signals = [i \in 1..Len(m.signals) |->
        [m.signals[i] EXCEPT !.channels = [j \in 1..Len(m.signals[i].channels) |->
            [m.signals[i].channels[j] EXCEPT !.signals =
                [l \in 1..Len(m.signals[i].channels[j].signals) |->
                    IF l > 1 THEN m.signals[i].channels[j].signals[l]
                    ELSE [m.signals[i].channels[j].signals[l] EXCEPT !.dd_units =
                            dd_units_of(m.signals[i].channels[j].signals[l],
                                        m.signals[i].ids_path)]]]]]]]

\* self with dd_units recorded on every signal
with_dd_units(m) ==
    [m EXCEPT !.signals = [i \in 1..Len(m.signals) |->
        [m.signals[i] EXCEPT !.channels = [j \in 1..Len(m.signals[i].channels) |->
            [m.signals[i].channels[j] EXCEPT !.signals =
                [l \in 1..Len(m.signals[i].channels[j].signals) |->
                    [m.signals[i].channels[j].signals[l] EXCEPT !.dd_units =
                        dd_units_of(m.signals[i].channels[j].signals[l],
                                    m.signals[i].ids_path)]]]]]]]

validate_imas_metadata ==
    /\ pc = "validate_imas_metadata"
    /\ IF model.data_dictionary_version \notin KnownVersions
       THEN \* imas.IDSFactory(version) raises
            /\ Raise("UnknownVersion")
            /\ calls' = Append(calls, "IDSFactory")
            /\ model' = model
       ELSE LET err == imas_metadata_error(model)
            IN  /\ calls' = calls \o
                      (IF err = "DD3NotSupported" THEN <<"IDSFactory">>
                       ELSE <<"IDSFactory", "IDSFactory.new">>)
                /\ IF err # None
                   THEN Raise(err) /\ model' = model
                   ELSE /\ pc' = "validate_unique_dan_channels"
                        /\ model' = with_dd_units(model)
                        /\ result' = result
    /\ UNCHANGED <<doc, edits, exit_code, raw, parsed, conv, md_file,
                   md_cache, streaming, runs>>

\* variant: compares neighbouring values only
raise_if_adjacent_duplicate(values) ==
    \E n \in 1..(Len(values) - 1) : values[n] = values[n + 1]

\* _raise_if_duplicate: TRUE when it raises
raise_if_duplicate(values) ==
    LET counts == [v \in Range(values) |->
                      Cardinality({n \in 1..Len(values) : values[n] = v})]
        duplicates == {v \in Range(values) : counts[v] > 1}
    IN  Cardinality(duplicates) > 0

\* the channels of the whole map, array-path after array-path
all_channels(m) == Flatten([i \in 1..Len(m.signals) |-> m.signals[i].channels])

all_signal_names(m) ==
    LET chans == all_channels(m)
    IN  Flatten([c \in 1..Len(chans) |->
            [l \in 1..Len(chans[c].signals) |-> chans[c].signals[l].signal]])

all_imas_channel_names(m) ==
    LET chans == all_channels(m)
    IN  [c \in 1..Len(chans) |-> chans[c].name]

validate_unique_dan_channels ==
    /\ pc = "validate_unique_dan_channels"
    /\ IF raise_if_duplicate(all_signal_names(model))
       THEN Raise("DuplicateSignalName")
       ELSE pc' = "validate_unique_imas_channels" /\ result' = result
    /\ UNCHANGED <<doc, edits, model, calls, exit_code, raw, parsed, conv,
                   md_file, md_cache, streaming, runs>>

validate_unique_imas_channels ==
    /\ pc = "validate_unique_imas_channels"
    /\ IF raise_if_duplicate(all_imas_channel_names(model))
       THEN Raise("DuplicateIMASName")
       ELSE pc' = "validate_machine_description" /\ result' = result
    /\ UNCHANGED <<doc, edits, model, calls, exit_code, raw, parsed, conv,
                   md_file, md_cache, streaming, runs>>

\* the IDS object entry.get(ids_name) builds from the data set
entry_get(md_uri, dd_version, ids_name) ==
    [id |-> "cached", time |-> "empty", comment |-> "", arrays |-> md_file]

CacheKeys == {e.key : e \in md_cache}

\* load_machine_description_ids (@cache): the object of an earlier call with
\* the same arguments, or a freshly loaded one
load_machine_description_ids(md_uri, dd_version, ids_name) ==
    LET key == <<md_uri, dd_version, ids_name>>
    IN  IF key \in CacheKeys
        THEN (CHOOSE e \in md_cache : e.key = key).ids
        ELSE entry_get(md_uri, dd_version, ids_name)

\* ... and the cache after the call
cache_after_load(md_uri, dd_version, ids_name) ==
    LET key == <<md_uri, dd_version, ids_name>>
    IN  IF key \in CacheKeys THEN md_cache
        ELSE md_cache \cup
               {[key |-> key, ids |-> entry_get(md_uri, dd_version, ids_name)]}

\* variant: the element names of every array of the machine description
all_names_of_any_path(ids, path) ==
    UNION {{ids.arrays[k][n].name : n \in 1..Len(ids.arrays[k])} :
           k \in DOMAIN ids.arrays}

\* all_names of one array-path of the machine description
all_names(ids, path) ==
    {ids.arrays[path][n].name : n \in 1..Len(ids.arrays[path])}

\* variant: looks at the first channel of every array-path only
channel_not_found_in_first(ids, m) ==
    \E i \in 1..Len(m.signals) :
        m.signals[i].channels[1].name \notin all_names(ids, m.signals[i].ids_path)

\* the name check of validate_machine_description: TRUE when a channel fails it
channel_not_found(ids, m) ==
    \E i \in 1..Len(m.signals) : \E j \in 1..Len(m.signals[i].channels) :
        m.signals[i].channels[j].name \notin all_names(ids, m.signals[i].ids_path)

validate_machine_description ==
    /\ pc = "validate_machine_description"
    /\ calls' = Append(calls, "load_machine_description_ids")
    /\ IF ~MDLoads(model.machine_description_uri, model.data_dictionary_version,
                   model.target_ids)
       THEN Raise("CouldNotLoadMD") /\ md_cache' = md_cache
       ELSE LET ids == load_machine_description_ids(
                           model.machine_description_uri,
                           model.data_dictionary_version, model.target_ids)
            IN  /\ md_cache' = cache_after_load(
                                   model.machine_description_uri,
                                   model.data_dictionary_version, model.target_ids)
                /\ IF channel_not_found(ids, model)
                   THEN Raise("ChannelNotFound")
                   ELSE pc' = "returned" /\ result' = NoError
    /\ UNCHANGED <<doc, edits, model, exit_code, raw, parsed, conv, md_file,
                   streaming, runs>>

\* from_yaml as a function of the document: TRUE when it returns a SignalMap
from_yaml_returns(d) ==
    /\ d.yaml_ok
    /\ SignalMap_errors(d) = <<>>
    /\ LET m == SignalMap_build(d)
       IN  /\ m.data_dictionary_version \in KnownVersions
           /\ imas_metadata_error(m) = None
           /\ ~raise_if_duplicate(all_signal_names(with_dd_units(m)))
           /\ ~raise_if_duplicate(all_imas_channel_names(with_dd_units(m)))
           /\ MDLoads(m.machine_description_uri, m.data_dictionary_version,
                      m.target_ids)
           /\ ~channel_not_found(
                  load_machine_description_ids(m.machine_description_uri,
                      m.data_dictionary_version, m.target_ids),
                  with_dd_units(m))

----------------------------------------------------------------------------
(* units.py: UnitConversion *)

\* exact fractions <<numerator, denominator>>, denominator positive
RECURSIVE GCD(_, _)
GCD(a, b) == IF b = 0 THEN a ELSE GCD(b, a % b)

Abs(n) == IF n < 0 THEN -n ELSE n

Frac(n, d) ==
    LET g == GCD(Abs(n), Abs(d))
        sign == IF d < 0 THEN -1 ELSE 1
    IN  <<sign * (n \div g), sign * (d \div g)>>

FAdd(x, y) == Frac(x[1] * y[2] + y[1] * x[2], x[2] * y[2])
FSub(x, y) == Frac(x[1] * y[2] - y[1] * x[2], x[2] * y[2])
FMul(x, y) == Frac(x[1] * y[1], x[2] * y[2])
FDiv(x, y) == Frac(x[1] * y[2], x[2] * y[1])

\* the units of the conversion tests as pint defines them: dimension, and the
\* factor and offset that express a value in the base unit of the dimension
UnitTable ==
    [ m    |-> [dim |-> "length", factor |-> <<1, 1>>, offset |-> <<0, 1>>],
      mm   |-> [dim |-> "length", factor |-> <<1, 1000>>, offset |-> <<0, 1>>],
      V    |-> [dim |-> "volt", factor |-> <<1, 1>>, offset |-> <<0, 1>>],
      mV   |-> [dim |-> "volt", factor |-> <<1, 1000>>, offset |-> <<0, 1>>],
      K    |-> [dim |-> "temperature", factor |-> <<1, 1>>, offset |-> <<0, 1>>],
      degC |-> [dim |-> "temperature", factor |-> <<1, 1>>,
                offset |-> <<27315, 100>>],
      degF |-> [dim |-> "temperature", factor |-> <<5, 9>>,
                offset |-> <<45967, 180>>] ]

UnitNames == DOMAIN UnitTable

\* magnitudes of the source quantities: Q("mm") is 1 mm, Q("1e2 mm") is 100 mm
Magnitudes == {1, 2, 100}

\* UNIT_REGISTRY.Quantity(magnitude, units)
QuantityOf(magnitude, unit) == [magnitude |-> magnitude, units |-> unit]

\* Quantity.to(target): the converted quantity, or pint's DimensionalityError
to(q, target) ==
    LET s == UnitTable[q.units]
        t == UnitTable[target]
        base == FAdd(FMul(q.magnitude, s.factor), s.offset)
    IN  IF s.dim # t.dim THEN [exc |-> "DimensionalityError"]
        ELSE [exc |-> None,
              magnitude |-> FDiv(FSub(base, t.offset), t.factor),
              units |-> target]

\* variant: the scale is not corrected for the offset
calculate_without_offset(source, target) ==
    LET zero == QuantityOf(<<0, 1>>, source.units)
    IN  IF to(zero, target).exc # None THEN [exc |-> to(zero, target).exc]
        ELSE [exc |-> None,
              scale |-> to(source, target).magnitude,
              offset |-> to(zero, target).magnitude]

\* UnitConversion.calculate(source, target)
calculate(source, target) ==
    LET zero == QuantityOf(<<0, 1>>, source.units)
    IN  IF to(zero, target).exc # None THEN [exc |-> to(zero, target).exc]
        ELSE LET offset == to(zero, target).magnitude
                 scale == FSub(to(source, target).magnitude, offset)
             IN  [exc |-> None, scale |-> scale, offset |-> offset]

NotCalculated == [exc |-> "NotCalled"]


calculate_call ==
    /\ pc = "calculate"
    /\ conv' = [conv EXCEPT !.result = calculate(conv.source, conv.target)]
    /\ pc' = "calculated"
    /\ UNCHANGED <<doc, edits, model, result, calls, exit_code, raw, parsed,
                   md_file, md_cache, streaming, runs>>

----------------------------------------------------------------------------
(* util.py: calculate_streaming_metadata *)

NotStreamed == [exc |-> "NotCalled", signals |-> <<>>, dynamic_data |-> <<>>]

\* variant: the very object that was passed
same_object(obj) == obj

\* copy.deepcopy: an equal object of its own
deepcopy(obj) == [obj EXCEPT !.id = "copy"]

\* signalmap.signals[name], the channels mapped to an array of structures
\* (no channels when name is no key of signalmap.signals)
channels_of(m, name) ==
    Flatten([i \in 1..Len(m.signals) |->
        IF m.signals[i].ids_path = name THEN m.signals[i].channels ELSE <<>>])

has_mapping(m, name) == \E i \in 1..Len(m.signals) : m.signals[i].ids_path = name

\* channelmap[name] of {channel.name: channel for channel in channels}: a later
\* channel replaces an earlier one of the same name
channelmap(channels, name) ==
    LET last == CHOOSE j \in 1..Len(channels) :
                    /\ channels[j].name = name
                    /\ \A o \in (j + 1)..Len(channels) : channels[o].name # name
    IN  channels[last]

channelmap_keys(channels) == {channels[j].name : j \in 1..Len(channels)}

\* variant: the children in the order of the channels of the mapping
mapped_children_in_mapping_order(item, channels) ==
    Flatten([j \in 1..Len(channels) |->
        SelectSeq(item, LAMBDA c : c.name = channels[j].name)])

\* [c for c in item if str(c.name) in channelmap]
mapped_children(item, channels) ==
    SelectSeq(item, LAMBDA c : c.name \in channelmap_keys(channels))

\* the loop body for one array of structures: its new value, and the dynamic
\* data and signals it appends
populate(m, name, item) ==
    IF Len(item) = 0
    THEN [value |-> item, dynamic_data |-> <<>>, signals |-> <<>>]
    ELSE IF has_mapping(m, name)
    THEN LET channels == channels_of(m, name)
             children == mapped_children(item, channels)
             per_child == [c \in 1..Len(children) |->
                 LET channel == channelmap(channels, children[c].name)
                 IN  [l \in 1..Len(channel.signals) |->
                        [dynamic |-> [path |-> <<name, c - 1, channel.signals[l].path>>,
                                      name |-> children[c].name],
                         signal |-> channel.signals[l]]]]
             appended == Flatten(per_child)
         IN  [value |-> children,
              dynamic_data |-> [n \in 1..Len(appended) |-> appended[n].dynamic],
              signals |-> [n \in 1..Len(appended) |-> appended[n].signal]]
    ELSE [value |-> <<>>, dynamic_data |-> <<>>, signals |-> <<>>]

\* 1 + sum(len(channel.signals) for channels in ... for channel in channels)
num_expected_fields(m) ==
    1 + Sum([c \in 1..Len(all_channels(m)) |-> Len(all_channels(m)[c].signals)])

calculate_streaming_metadata ==
    /\ pc \in {"returned", "streamed"}
    /\ LET machine_description ==
               load_machine_description_ids(model.machine_description_uri,
                   model.data_dictionary_version, model.target_ids)
           loaded == cache_after_load(model.machine_description_uri,
                         model.data_dictionary_version, model.target_ids)
           static_data == deepcopy(machine_description)
           done == [n \in 1..Len(AoSOrder) |->
                       populate(model, AoSOrder[n], static_data.arrays[AoSOrder[n]])]
           dynamic_data == <<[path |-> <<"time">>, name |-> None]>> \o
                               Flatten([n \in 1..Len(done) |-> done[n].dynamic_data])
           signals == Flatten([n \in 1..Len(done) |-> done[n].signals])
           filled == [static_data EXCEPT
                        !.time = "nan",
                        !.comment = "Streaming IMAS data from ITER Diagnostics",
                        !.arrays = [name \in DOMAIN @ |->
                            done[IndexOf(AoSOrder, name)].value]]
       IN  \* the changes reach every holder of the object static_data names
           /\ md_cache' = {IF e.ids.id = static_data.id
                           THEN [e EXCEPT !.ids = filled] ELSE e : e \in loaded}
           /\ streaming' =
                 IF num_expected_fields(model) # Len(dynamic_data)
                 THEN [exc |-> "AssertionError", signals |-> <<>>,
                       dynamic_data |-> <<>>]
                 ELSE [exc |-> None, signals |-> signals,
                       dynamic_data |-> dynamic_data, static_data |-> filled]
    /\ pc' = "streamed"
    /\ UNCHANGED <<doc, edits, model, result, calls, exit_code, raw, parsed, conv,
                   md_file, runs>>

\* the same process goes on to another mapping file
next_file ==
    /\ pc \in {"returned", "raised", "streamed"}
    /\ runs < MaxRuns
    /\ pc' = "edit"
    /\ doc' = BaseMapping
    /\ edits' = 0
    /\ model' = None
    /\ result' = NoError
    /\ calls' = <<>>
    /\ streaming' = NotStreamed
    /\ runs' = runs + 1
    /\ UNCHANGED <<exit_code, raw, parsed, conv, md_file, md_cache>>

----------------------------------------------------------------------------
(* cli.py *)

\* try_parse as called by `validate`: the exit code of the process
try_parse ==
    /\ pc \in {"returned", "raised"}
    /\ exit_code' =
         CASE result.cls = None -> 0
           [] result.cls = "YAMLError" -> 2
           [] result.cls = "ValidationError" -> 3
           [] OTHER -> 1
    /\ pc' = "exited"
    /\ UNCHANGED <<doc, edits, model, result, calls, raw, parsed, conv,
                   md_file, md_cache, streaming, runs>>

----------------------------------------------------------------------------
(* A stand-alone call of ChannelSignal.parse_signal_expression *)

Alphabet == {"x", " ", "[", "]", "V"}

NotParsed == [exc |-> "NotCalled", signal |-> None, source_units |-> None]

parse_call ==
    /\ pc = "parse"
    /\ parsed' = parse_signal_expression(raw)
    /\ pc' = "parsed"
    /\ UNCHANGED <<doc, edits, model, result, calls, exit_code, raw, conv,
                   md_file, md_cache, streaming, runs>>

----------------------------------------------------------------------------
(* Specifications *)

Init ==
    /\ doc = BaseMapping
    /\ edits = 0
    /\ pc = "edit"
    /\ model = None
    /\ result = NoError
    /\ calls = <<>>
    /\ exit_code = -1
    /\ raw = <<>>
    /\ parsed = NotParsed
    /\ runs = 1
    /\ streaming = NotStreamed
    /\ md_cache = {}
    /\ md_file = StandardMD
    /\ conv = [source |-> None, target |-> None, result |-> NotCalculated]

Next ==
    \/ \E v \in Versions : ReplaceVersion(v)
    \/ \E u \in Uris : ReplaceUri(u)
    \/ \E t \in Targets : ReplaceTarget(t)
    \/ \E i \in EntryIdx(doc), k \in ArrayPaths : ReplaceArrayPath(i, k)
    \/ \E ij \in ChannelIdx(doc), n \in ChannelNames \cup {None} :
          ReplaceChannelName(ij, n)
    \/ \E ijl \in SignalIdx(doc), p \in SignalPaths : ReplaceSignalPath(ijl, p)
    \/ \E ijl \in SignalIdx(doc), r \in RawSignals : ReplaceSignal(ijl, r)
    \/ \E i \in EntryIdx(doc), n \in ChannelNames : AppendChannel(i, n)
    \/ \E ij \in ChannelIdx(doc), p \in SignalPaths, r \in RawSignals :
          AppendSignal(ij, p, r)
    \/ \E k \in ArrayPaths, n \in ChannelNames : AppendArrayPath(k, n)
    \/ \E ijl \in SignalIdx(doc) : DeleteSignal(ijl)
    \/ \E ij \in ChannelIdx(doc) : DeleteChannel(ij)
    \/ \E k \in TopLevelKeys : DeleteKey(k)
    \/ DeleteArrayPathKey
    \/ AppendUnknownKey
    \/ BreakYaml
    \/ from_yaml
    \/ SignalMap_fields
    \/ validate_imas_metadata
    \/ validate_unique_dan_channels
    \/ validate_unique_imas_channels
    \/ validate_machine_description
    \/ try_parse

Spec == Init /\ [][Next]_vars

\* parse_signal_expression applied to every expression up to MaxLen characters
InitParse ==
    /\ doc = BaseMapping
    /\ edits = 0
    /\ pc = "parse"
    /\ model = None
    /\ result = NoError
    /\ calls = <<>>
    /\ exit_code = -1
    /\ raw \in SeqsUpTo(Alphabet, MaxLen)
    /\ parsed = NotParsed
    /\ runs = 1
    /\ streaming = NotStreamed
    /\ md_cache = {}
    /\ md_file = StandardMD
    /\ conv = [source |-> None, target |-> None, result |-> NotCalculated]

NextParse == parse_call

SpecParse == InitParse /\ [][NextParse]_vars

\* UnitConversion.calculate applied to every pair of the unit table
InitUnits ==
    /\ doc = BaseMapping
    /\ edits = 0
    /\ pc = "calculate"
    /\ model = None
    /\ result = NoError
    /\ calls = <<>>
    /\ exit_code = -1
    /\ raw = <<>>
    /\ parsed = NotParsed
    /\ runs = 1
    /\ streaming = NotStreamed
    /\ md_cache = {}
    /\ md_file = StandardMD
    /\ \E mag \in Magnitudes, u \in UnitNames, t \in UnitNames :
          conv = [source |-> QuantityOf(<<mag, 1>>, u), target |-> t,
                  result |-> NotCalculated]

NextUnits == calculate_call

SpecUnits == InitUnits /\ [][NextUnits]_vars

\* validation followed by calculate_streaming_metadata, for several mapping
\* files in one process and for each machine description data set
InitStream ==
    /\ doc = BaseMapping
    /\ edits = 0
    /\ pc = "edit"
    /\ model = None
    /\ result = NoError
    /\ calls = <<>>
    /\ exit_code = -1
    /\ raw = <<>>
    /\ parsed = NotParsed
    /\ conv = [source |-> None, target |-> None, result |-> NotCalculated]
    /\ md_file \in MachineDescriptions
    /\ md_cache = {}
    /\ streaming = NotStreamed
    /\ runs = 1

NextStream ==
    \/ \E ij \in ChannelIdx(doc), n \in ChannelNames : ReplaceChannelName(ij, n)
    \/ \E i \in EntryIdx(doc), n \in ChannelNames : AppendChannel(i, n)
    \/ \E ij \in ChannelIdx(doc), p \in SignalPaths, r \in RawSignals :
          AppendSignal(ij, p, r)
    \/ \E k \in ArrayPaths, n \in ChannelNames : AppendArrayPath(k, n)
    \/ \E ijl \in SignalIdx(doc) : DeleteSignal(ijl)
    \/ \E ij \in ChannelIdx(doc) : DeleteChannel(ij)
    \/ from_yaml
    \/ SignalMap_fields
    \/ validate_imas_metadata
    \/ validate_unique_dan_channels
    \/ validate_unique_imas_channels
    \/ validate_machine_description
    \/ calculate_streaming_metadata
    \/ next_file

SpecStream == InitStream /\ [][NextStream]_vars

----------------------------------------------------------------------------
(* Vocabulary of the properties *)

Finished == pc \in {"returned", "raised", "exited"}
Succeeded == Finished /\ result.cls = None
Failed == Finished /\ result.cls # None

\* the document parsed and every field of the model could be constructed
FieldsOk(d) == d.yaml_ok /\ SignalMap_errors(d) = <<>>

\* from_yaml failed in one of SignalMap's cross-reference validators
FailedInValidator == Failed /\ FieldsOk(doc)

FirstKind == result.errors[1].kind
FirstLoc == result.errors[1].loc

SignalIdAt(d, ijl) ==
    parse_signal_expression(
        d.signals[ijl[1]].channels[ijl[2]].signals[ijl[3]].signal).signal
ChannelNameAt(d, ij) == d.signals[ij[1]].channels[ij[2]].name

\* document order of positions
Before(a, b) ==
    \/ a[1] < b[1]
    \/ a[1] = b[1] /\ a[2] < b[2]
    \/ a[1] = b[1] /\ a[2] = b[2] /\ Len(a) = 3 /\ a[3] < b[3]

RepeatedSignalIds(d) ==
    {b \in SignalIdx(d) :
        \E a \in SignalIdx(d) : Before(a, b) /\ SignalIdAt(d, a) = SignalIdAt(d, b)}
RepeatedChannelNames(d) ==
    {b \in ChannelIdx(d) :
        \E a \in ChannelIdx(d) :
            Before(a, b) /\ ChannelNameAt(d, a) = ChannelNameAt(d, b)}
\* ... within one array-path
LocallyRepeatedChannelNames(d) ==
    {b \in ChannelIdx(d) :
        \E a \in ChannelIdx(d) :
            a[1] = b[1] /\ a[2] < b[2] /\ ChannelNameAt(d, a) = ChannelNameAt(d, b)}

\* structural (YAML) paths of a signal and of a channel
SignalYamlPath(d, ijl) ==
    <<"signals", d.signals[ijl[1]].ids_path, ijl[2] - 1,
      d.signals[ijl[1]].channels[ijl[2]].signals[ijl[3]].path>>
ChannelYamlPath(d, ij) == <<"signals", d.signals[ij[1]].ids_path, ij[2] - 1, "name">>

\* the steps of the validation order of the specification that d violates
BadArrayPaths(d) ==
    {i \in EntryIdx(d) : data_type(d.target_ids, d.signals[i].ids_path) # "STRUCT_ARRAY"}
AbsentChannels(d) ==
    {ij \in ChannelIdx(d) :
        ChannelNameAt(d, ij) \notin Range(MDNames(d.signals[ij[1]].ids_path))}
UnknownSignalPaths(d) ==
    {ijl \in SignalIdx(d) :
        units(d.signals[ijl[1]].ids_path,
              d.signals[ijl[1]].channels[ijl[2]].signals[ijl[3]].path) = None}
IncompatibleSignals(d) ==
    {ijl \in SignalIdx(d) \ UnknownSignalPaths(d) :
        LET sig == d.signals[ijl[1]].channels[ijl[2]].signals[ijl[3]]
            p == parse_signal_expression(sig.signal)
        IN  /\ p.exc = None
            /\ Dimensionality(p.source_units) #
                 Dimensionality(units(d.signals[ijl[1]].ids_path, sig.path))}

ViolatedSteps(d) ==
    (IF startswith(d.data_dictionary_version, <<"3", ".">>)
        \/ d.data_dictionary_version \notin KnownVersions THEN {1} ELSE {})
    \cup (IF d.target_ids \notin IDSNames THEN {2} ELSE {})
    \cup (IF ~MDLoads(d.machine_description_uri, d.data_dictionary_version,
                      d.target_ids) THEN {3} ELSE {})
    \cup (IF \/ BadArrayPaths(d) # {}
             \/ AbsentChannels(d) # {}
             \/ LocallyRepeatedChannelNames(d) # {}
             \/ UnknownSignalPaths(d) # {}
             \/ IncompatibleSignals(d) # {} THEN {4} ELSE {})
    \cup (IF RepeatedSignalIds(d) # {} \/ RepeatedChannelNames(d) # {}
          THEN {5} ELSE {})

StepOf(kind) ==
    CASE kind \in {"UnknownVersion", "DD3NotSupported"} -> 1
      [] kind = "UnknownIDS" -> 2
      [] kind = "CouldNotLoadMD" -> 3
      [] kind \in {"UnknownIDSPath", "NotAnAoS", "ChannelNotFound",
                   "DuplicateChannelName", "IncompatibleUnits"} -> 4
      [] kind \in {"DuplicateSignalName", "DuplicateIMASName"} -> 5
      [] OTHER -> 0

Min(S) == CHOOSE x \in S : \A y \in S : x <= y

----------------------------------------------------------------------------
(* Properties *)

\* C1: when validation fails, the reported error belongs to the lowest-numbered
\* step, in the order version (1), target IDS (2), machine-description load (3),
\* per-array-path checks (4), whole-document duplicates (5), that the document
\* violates.
C1_LowestViolatedStepReported ==
    FailedInValidator =>
        /\ Len(result.errors) = 1
        /\ StepOf(FirstKind) = Min(ViolatedSteps(doc))

\* C2: a version starting with "3." is rejected as "Data Dictionary 3.x is not
\* supported" before any request is made to the catalog.
C2_DD3RejectedBeforeCatalog ==
    (FailedInValidator /\ startswith(doc.data_dictionary_version, <<"3", ".">>))
        => (FirstKind = "DD3NotSupported" /\ calls = <<>>)

\* C3: a validated SignalMap repeats no signal id and no channel name anywhere,
\* and every document that repeats one is rejected.
C3_IdentifiersUnique ==
    Succeeded =>
        /\ RepeatedSignalIds(doc) = {} /\ RepeatedChannelNames(doc) = {}
        /\ \A a, b \in SignalIdx(model) :
              a # b => model.signals[a[1]].channels[a[2]].signals[a[3]].signal #
                       model.signals[b[1]].channels[b[2]].signals[b[3]].signal
        /\ \A a, b \in ChannelIdx(model) :
              a # b => ChannelNameAt(model, a) # ChannelNameAt(model, b)

\* a signal id repeated across two array-paths has been rejected as a duplicate
C3_Witness ==
    /\ pc = "raised"
    /\ FailedInValidator
    /\ FirstKind = "DuplicateSignalName"
    /\ \E b \in RepeatedSignalIds(doc) : \E a \in SignalIdx(doc) :
          a[1] # b[1] /\ SignalIdAt(doc, a) = SignalIdAt(doc, b)

\* C4: a duplicate error is located at the second occurrence of the identifier.
C4_DuplicateAtSecondOccurrence ==
    /\ (FailedInValidator /\ FirstKind = "DuplicateSignalName")
          => FirstLoc \in {SignalYamlPath(doc, b) : b \in RepeatedSignalIds(doc)}
    /\ (FailedInValidator /\ FirstKind = "DuplicateIMASName")
          => FirstLoc \in {ChannelYamlPath(doc, b) : b \in RepeatedChannelNames(doc)}

\* C5: a channel name repeated inside one array-path is reported by the
\* per-array-path check as "duplicate channel name" at the second channel's
\* name; "duplicate IMAS name" is reported only for a repetition across two
\* array-paths.
C5_TwoTierDuplicates ==
    /\ (FailedInValidator /\ FirstKind = "DuplicateIMASName")
          => LocallyRepeatedChannelNames(doc) = {}
    /\ (FailedInValidator /\ ViolatedSteps(doc) = {4, 5}
        /\ BadArrayPaths(doc) = {} /\ AbsentChannels(doc) = {}
        /\ UnknownSignalPaths(doc) = {} /\ IncompatibleSignals(doc) = {}
        /\ RepeatedSignalIds(doc) = {})
          => /\ FirstKind = "DuplicateChannelName"
             /\ FirstLoc \in
                  {ChannelYamlPath(doc, b) : b \in LocallyRepeatedChannelNames(doc)}

\* C6: every channel of a validated SignalMap is named after an element of the
\* machine description's array at its own array-path; a channel that is not is
\* rejected, as "channel not found" once the machine description is loaded.
C6_ChannelsInMachineDescription ==
    /\ Succeeded =>
          \A ij \in ChannelIdx(model) :
              \E e \in 1..Len(MDNames(model.signals[ij[1]].ids_path)) :
                  MDNames(model.signals[ij[1]].ids_path)[e] = ChannelNameAt(model, ij)
    /\ (Finished /\ AbsentChannels(doc) # {}) => ~Succeeded
    /\ (FailedInValidator /\ AbsentChannels(doc) # {}
        /\ calls # <<>> /\ calls[Len(calls)] = "load_machine_description_ids"
        /\ MDLoads(doc.machine_description_uri, doc.data_dictionary_version,
                   doc.target_ids))
          => FirstKind = "ChannelNotFound"

\* a channel named after an element of another array-path has been rejected
C6_Witness ==
    /\ pc = "raised"
    /\ FailedInValidator
    /\ FirstKind = "ChannelNotFound"
    /\ \E ij \in AbsentChannels(doc) : \E k \in ArrayPaths :
          ChannelNameAt(doc, ij) \in Range(MDNames(k))

\* C7: a key of `signals` that is no array of structures of the target IDS
\* fails with unknown-path / not-an-array-of-structures, located at that key.
C7_ArrayPathErrorAtKey ==
    (FailedInValidator /\ ViolatedSteps(doc) \cap {1, 2, 3} = {}
     /\ BadArrayPaths(doc) # {})
        => LET i == Min(BadArrayPaths(doc))
               k == doc.signals[i].ids_path
           IN  /\ FirstKind = (IF data_type(doc.target_ids, k) = None
                               THEN "UnknownIDSPath" ELSE "NotAnAoS")
               /\ FirstLoc = <<"signals", k>>

\* C8: a signal whose unit is dimensionally incompatible with the unit the
\* Data Dictionary mandates for its path makes validation fail, with the
\* incompatible-units error when nothing else is wrong before it; a validated
\* SignalMap holds no such signal.
C8_IncompatibleUnitsRejected ==
    /\ Succeeded =>
          \A ijl \in SignalIdx(model) :
              LET sig == model.signals[ijl[1]].channels[ijl[2]].signals[ijl[3]]
              IN  Dimensionality(sig.source_units) = Dimensionality(sig.dd_units)
    /\ (Finished /\ IncompatibleSignals(doc) # {}) => ~Succeeded
    /\ (FailedInValidator /\ ViolatedSteps(doc) \cap {1, 2} = {}
        /\ BadArrayPaths(doc) = {} /\ UnknownSignalPaths(doc) = {}
        /\ IncompatibleSignals(doc) # {})
          => FirstKind = "IncompatibleUnits"

\* a signal annotated [V] on a path whose unit is Wb has been rejected
C8_Witness ==
    /\ pc = "raised"
    /\ FailedInValidator
    /\ FirstKind = "IncompatibleUnits"
    /\ IncompatibleSignals(doc) # {}

\* C9: parse_signal_expression has exactly four outcomes: missing unit (no
\* "["), expecting a closing bracket (text after the first "[" does not end
\* in "]"), invalid unit expression (the bracketed text is no unit), or
\* success with the trimmed signal id and the parsed unit.
C9_FourOutcomes ==
    pc = "parsed" =>
        LET open == IndexOf(raw, "[")
            inner == SubSeq(raw, open + 1, Len(raw) - 1)
        IN  IF open = 0 THEN parsed.exc = "MissingUnit"
            ELSE IF open = Len(raw) \/ raw[Len(raw)] # "]"
            THEN parsed.exc = "ExpectingClosingBracket"
            ELSE IF Quantity(inner).exc # None
            THEN parsed.exc = "ErrorParsingUnit"
            ELSE /\ parsed.exc = None
                 /\ parsed.signal = strip(SubSeq(raw, 1, open - 1))
                 /\ parsed.source_units = Quantity(inner).units

\* a file that is strict YAML of the document shape
WellFormed(d) ==
    /\ d.yaml_ok
    /\ d.keys = TopLevelKeys
    /\ d.signals_is_mapping
    /\ \A ij \in ChannelIdx(d) : ChannelNameAt(d, ij) # None

\* C10: the CLI exits 0 for a valid file, 2 (YAMLError) for a file that is not
\* strict YAML of the document shape, and 3 (ValidationError) for a well-formed
\* file with invalid data; never 1.
C10_ExitCodes ==
    pc = "exited" =>
        /\ exit_code = 0 <=> result.cls = None
        /\ ~WellFormed(doc) => (exit_code = 2 /\ result.cls = "YAMLError")
        /\ (WellFormed(doc) /\ result.cls # None)
              => (exit_code = 3 /\ result.cls = "ValidationError")

\* C11: a document that deviates from the fixed shape (a required top-level
\* key missing, `signals` no mapping of array-paths to channel sequences, a
\* channel entry without `name`, an unknown top-level key) is rejected with a
\* YAMLError, before any model is constructed or any collaborator is asked.
C11_ShapeErrorsAreYAMLErrors ==
    (Finished /\ ~WellFormed(doc))
        => (result.cls = "YAMLError" /\ model = None /\ calls = <<>>)

\* C12: every validation failure of from_yaml is a ValidationError carrying a
\* structural path, whose text is the message, then `in "<label>", line <N>:`,
\* then the source line, N being the line of the node the path designates.
C12_LocatedValidationError ==
    (pc = "raised" /\ result.cls # "YAMLError")
        => /\ result.cls = "ValidationError"
           /\ result = set_yaml_and_label(
                  ValidationError(result.msg, result.yaml_path),
                  doc, "<unicode string>")
           /\ result.full_message[2].line = YamlLine(doc, result.yaml_path)

\* the reorderings of n channel entries
Reorderings(n) ==
    {f \in [1..n -> 1..n] : \A a, b \in 1..n : a # b => f[a] # f[b]}

\* d with the channel entries of array-path i reordered by f
Permuted(d, i, f) ==
    [d EXCEPT !.signals[i].channels =
        [j \in 1..Len(d.signals[i].channels) |-> d.signals[i].channels[f[j]]]]

\* C13: reordering the channel entries inside one array-path list does not
\* change whether the document is valid, and a validated SignalMap lists the
\* channels in the order the document declares them.
C13_OrderIndependence ==
    /\ Finished =>
          \A i \in EntryIdx(doc) :
              \A f \in Reorderings(Len(doc.signals[i].channels)) :
                  from_yaml_returns(Permuted(doc, i, f)) <=> Succeeded
    /\ Succeeded =>
          \A i \in EntryIdx(doc) :
              /\ model.signals[i].ids_path = doc.signals[i].ids_path
              /\ [j \in 1..Len(model.signals[i].channels) |->
                     model.signals[i].channels[j].name]
                 = [j \in 1..Len(doc.signals[i].channels) |->
                     doc.signals[i].channels[j].name]

\* a document with two different channels in one array-path has been
\* validated; so has, by the property, the document that swaps them
C13_Witness ==
    /\ pc = "returned"
    /\ Succeeded
    /\ \E i \in EntryIdx(doc) :
          /\ Len(doc.signals[i].channels) >= 2
          /\ doc.signals[i].channels[1] # doc.signals[i].channels[2]
          /\ Len(doc.signals[i].channels[1].signals) > 0

\* raw numbers read from a source signal
RawNumbers == {-2, 0, 1, 3}

\* C14 as stated: offset is 0 in the source unit converted to the target unit
\* and scale is 1 in the source unit converted to the target unit, minus offset.
C14_ScaleOfOneSourceUnit ==
    (pc = "calculated" /\ conv.result.exc = None) =>
        LET zero == QuantityOf(<<0, 1>>, conv.source.units)
            one == QuantityOf(<<1, 1>>, conv.source.units)
        IN  /\ conv.result.offset = to(zero, conv.target).magnitude
            /\ conv.result.scale =
                  FSub(to(one, conv.target).magnitude, conv.result.offset)

\* C14 amended: scale and offset convert raw numbers counted in the source
\* quantity: a raw number x stands for x times the source quantity, and its
\* value in the target unit is x * scale + offset; offset is 0 in the source
\* quantity's unit converted to the target unit.  A source of magnitude 1
\* gives the scale of one source unit: identical units (1, 0), mV to V
\* (0.001, 0), degC to K (1, 273.15).
C14_AffineConversion ==
    (pc = "calculated" /\ conv.result.exc = None) =>
        LET r == conv.result
            src == conv.source
        IN  /\ r.offset = to(QuantityOf(<<0, 1>>, src.units), conv.target).magnitude
            /\ \A x \in RawNumbers :
                  to(QuantityOf(FMul(<<x, 1>>, src.magnitude), src.units),
                     conv.target).magnitude
                    = FAdd(FMul(<<x, 1>>, r.scale), r.offset)
            /\ (src.magnitude = <<1, 1>> /\ src.units = conv.target)
                  => (r.scale = <<1, 1>> /\ r.offset = <<0, 1>>)
            /\ (src = QuantityOf(<<1, 1>>, "mV") /\ conv.target = "V")
                  => (r.scale = <<1, 1000>> /\ r.offset = <<0, 1>>)
            /\ (src = QuantityOf(<<1, 1>>, "degC") /\ conv.target = "K")
                  => (r.scale = <<1, 1>> /\ r.offset = Frac(27315, 100))

\* 100 mm ("1e2 mm") has been converted to m: scale 0.1, offset 0
C14_Witness ==
    /\ pc = "calculated"
    /\ conv.source = QuantityOf(<<100, 1>>, "mm")
    /\ conv.target = "m"
    /\ conv.result = [exc |-> None, scale |-> <<1, 10>>, offset |-> <<0, 1>>]

\* the ChannelSignals of a SignalMap
ChannelSignalsOf(m) ==
    {m.signals[ijl[1]].channels[ijl[2]].signals[ijl[3]] : ijl \in SignalIdx(m)}

\* C15: calculate_streaming_metadata on a validated SignalMap returns one
\* signal per ChannelSignal of the map and one dynamic-data entry more, the
\* time first and then one per signal in the same order; its assertion
\* num_expected_fields == len(dynamic_data) never fails, whatever the machine
\* description holds.
C15_OneFieldPerSignal ==
    pc = "streamed" =>
        /\ streaming.exc = None
        /\ Len(streaming.signals) = Cardinality(SignalIdx(model))
        /\ \A sig \in ChannelSignalsOf(model) :
              Cardinality({n \in 1..Len(streaming.signals) :
                              streaming.signals[n] = sig}) = 1
        /\ Len(streaming.dynamic_data) = Len(streaming.signals) + 1
        /\ streaming.dynamic_data[1].path = <<"time">>
        /\ \A n \in 1..Len(streaming.signals) :
              streaming.dynamic_data[n + 1].path[3] = streaming.signals[n].path

\* names of the channels the map holds for an array of structures
MappedNames(m, name) ==
    {m.signals[ij[1]].channels[ij[2]].name :
        ij \in {c \in ChannelIdx(m) : m.signals[c[1]].ids_path = name}}

\* C16: in the returned static data an array of structures that has a mapping
\* keeps exactly the machine-description elements whose name is mapped, in
\* machine-description order; an array without a mapping is emptied.
C16_StaticDataFiltered ==
    (pc = "streamed" /\ streaming.exc = None) =>
        \A name \in DOMAIN md_file :
            LET kept == streaming.static_data.arrays[name]
            IN  IF \E i \in EntryIdx(model) : model.signals[i].ids_path = name
                THEN /\ \A e \in Range(md_file[name]) :
                          e \in Range(kept) <=> e.name \in MappedNames(model, name)
                     /\ Range(kept) \subseteq Range(md_file[name])
                     /\ \A a, b \in 1..Len(kept) :
                          a < b => kept[a].geometry < kept[b].geometry
                ELSE kept = <<>>

\* a map that lists two flux loops in the reverse of the machine-description
\* order has been processed, and the unmapped probes have been removed
C16_Witness ==
    /\ pc = "streamed"
    /\ streaming.exc = None
    /\ \E i \in EntryIdx(model) :
          /\ Len(model.signals[i].channels) = 2
          /\ LET names == MDNames(model.signals[i].ids_path)
             IN  /\ Len(names) >= 2
                 /\ model.signals[i].channels[1].name = names[2]
                 /\ model.signals[i].channels[2].name = names[1]
                 /\ Len(streaming.static_data.arrays[model.signals[i].ids_path]) = 2
    /\ \E name \in DOMAIN md_file :
          /\ Len(md_file[name]) > 0
          /\ streaming.static_data.arrays[name] = <<>>

\* C19: the cached machine description is never modified:
\* calculate_streaming_metadata works on a copy, the cache holds what the data
\* set holds after any sequence of validations and calculate_streaming_metadata
\* calls, and every validation sees the channel names of the data set.
C19_CacheUnchanged ==
    /\ \A e \in md_cache : e.ids = entry_get(e.key[1], e.key[2], e.key[3])
    /\ \A e \in md_cache : e.ids.arrays = md_file
    /\ (pc = "streamed" /\ streaming.exc = None)
          => \A e \in md_cache : streaming.static_data.id # e.ids.id
    /\ pc \in {"returned", "streamed"} => AbsentChannels(doc) = {}
    /\ (pc = "raised" /\ FailedInValidator /\ FirstKind = "ChannelNotFound")
          => AbsentChannels(doc) # {}

\* a second mapping file has been validated against the cached machine
\* description and calculate_streaming_metadata has filtered its copy
C19_Witness ==
    /\ runs = 2
    /\ pc = "streamed"
    /\ streaming.exc = None
    /\ md_cache # {}
    /\ \E e \in md_cache : streaming.static_data.arrays # e.ids.arrays

\* C17: validation is fail-fast: a failed from_yaml call carries exactly one
\* error, that of the first violation detected; violations of sibling entries
\* are not accumulated, and no SignalMap is returned on failure.
C17_FailFastSingleError ==
    Failed =>
        /\ pc # "returned"
        /\ result.cls # "YAMLError" => Len(result.errors) = 1
        /\ (result.cls # "YAMLError" /\ ~FieldsOk(doc))
              => result.errors[1] = SignalMap_errors(doc)[1]

\* errors that report an exception of the catalog or of the unit algebra
CollaboratorKinds ==
    {"UnknownVersion", "UnknownIDS", "UnknownIDSPath", "CouldNotLoadMD",
     "ErrorParsingUnit", "pint.ValueError"}

\* C18: an exception raised by a collaborator (catalog, machine-description
\* load, unit algebra) surfaces as a validation error that carries the
\* structural path of the item being validated; it never leaves from_yaml in
\* its own type.
C18_CollaboratorErrorsLocated ==
    (pc = "raised" /\ result.cls # "YAMLError" /\ FirstKind \in CollaboratorKinds)
        => /\ result.cls \in {"ValidationError", "pydantic.ValidationError"}
           /\ \A n \in 1..Len(result.errors) :
                 result.errors[n].kind \in CollaboratorKinds
                     => result.errors[n].loc # <<>>

\* C20: dd_units is None on every ChannelSignal when the cross-reference
\* validators start, and on every ChannelSignal of a validated SignalMap it is
\* the unit the Data Dictionary mandates for the signal's path.
C20_DDUnitsSetByValidation ==
    /\ pc = "validate_imas_metadata" =>
          \A sig \in ChannelSignalsOf(model) : sig.dd_units = None
    /\ Succeeded =>
          \A ijl \in SignalIdx(model) :
              LET sig == model.signals[ijl[1]].channels[ijl[2]].signals[ijl[3]]
              IN  /\ sig.dd_units # None
                  /\ sig.dd_units = units(model.signals[ijl[1]].ids_path, sig.path)

\* a map with signals in two array-paths, two of them of different units, has
\* been validated
C20_Witness ==
    /\ pc = "returned"
    /\ Succeeded
    /\ \E a, b \in SignalIdx(model) : a[1] # b[1]
    /\ \E a, b \in ChannelSignalsOf(model) : a.dd_units # b.dd_units

====
